---- MODULE Spec2Model ----
(***************************************************************************)
(* A model of breakmer/processor/bam_handler.py: the quality trimmer, the  *)
(* cigar clip geometry, the pair-overlap resolver, the pairing metadata    *)
(* and the VariantReadTracker with its two passes and its emitter.         *)
(*                                                                         *)
(* Sequences and quality strings are TLA+ sequences (1-based); every       *)
(* coordinate held in the state is the 0-based Python coordinate, and      *)
(* PySlice / Find translate between the two.  A quality string is the      *)
(* sequence of its character codes, decoded by subtracting PhredOffset.    *)
(* A read object is a record; the tracker holds references (read ids) into *)
(* the variable reads, so that the in-place trim of write_seqs is seen     *)
(* through every alias, as in Python.                                      *)
(***************************************************************************)
EXTENDS Integers, Sequences, FiniteSets, TLC

VARIABLES
    reads,          \* the pysam read objects of the fetch, by read id
    fetched,        \* read ids the loop of get_variant_reads has consumed
    pair_indices,   \* VariantReadTracker.pair_indices
    valid,          \* VariantReadTracker.valid
    disc,           \* VariantReadTracker.disc
    unmapped,       \* VariantReadTracker.unmapped
    unmapped_keep,  \* VariantReadTracker.unmapped_keep
    inv,            \* VariantReadTracker.inv
    td,             \* VariantReadTracker.td
    other,          \* VariantReadTracker.other
    sv,             \* VariantReadTracker.sv (a dict while sv_none is FALSE)
    sv_none,        \* TRUE once clear_sv_reads has set sv to None
    bam,            \* VariantReadTracker.bam: [closes |-> number of close() calls]
    clipped_fa,     \* the sequence sink: what write_seqs wrote to clipped_fa
    reads_fq,       \* the reads sink: what write_seqs wrote to reads_fq
    sv_bam,         \* the alignment sink: what write_seqs wrote to sv_bam
    calls,          \* how often each method of the tracker has been called
    trace,          \* locals of the last check_clippings pass, per valid entry
    kmer_size,      \* the kmer_size the caller passes to both passes
    cpo,            \* the frame of one check_pair_overlap call
    bamfile         \* the records of the alignment file, as fetch and mate read them

vars == <<reads, fetched, pair_indices, valid, disc, unmapped, unmapped_keep,
          inv, td, other, sv, sv_none, bam, clipped_fa, reads_fq, sv_bam,
          calls, trace, kmer_size, cpo, bamfile>>

(***************************************************************************)
(* Python helpers.                                                         *)
(***************************************************************************)
Min2(a, b) == IF a < b THEN a ELSE b

Max2(a, b) == IF a > b THEN a ELSE b

Abs(x) == IF x < 0 THEN -x ELSE x

SetMin(S) == CHOOSE x \in S : \A y \in S : x <= y

\* Python's s[i:j]: a negative bound counts from the end, both are clamped.
PyIndex(n, k) == IF k < 0 THEN Max2(k + n, 0) ELSE Min2(k, n)

PySlice(s, i, j) ==
    LET lo == PyIndex(Len(s), i)
        hi == PyIndex(Len(s), j)
    IN  IF lo < hi THEN SubSeq(s, lo + 1, hi) ELSE <<>>

\* Python's s[::-1]
Reverse(s) == [i \in 1..Len(s) |-> s[Len(s) + 1 - i]]

\* Python's hay.find(needle): the lowest 0-based index of an occurrence, or -1.
Find(hay, needle) ==
    LET m == Len(needle)
        hits == {i \in 0..(Len(hay) - m) : SubSeq(hay, i + 1, i + m) = needle}
    IN  IF hits = {} THEN -1 ELSE SetMin(hits)

\* The offset of the Phred encoding (ord(c) - 33).
PhredOffset == 33

(***************************************************************************)
(* QualityTrimmer: seq_trim, trim_coords, trim_qual.                       *)
(***************************************************************************)
RECURSIVE seq_trim_from(_, _, _)
seq_trim_from(qual_str, min_qual, counter) ==
    IF qual_str[counter + 1] - PhredOffset < min_qual
    THEN IF counter + 1 = Len(qual_str)
         THEN counter + 1
         ELSE seq_trim_from(qual_str, min_qual, counter + 1)
    ELSE counter

seq_trim(qual_str, min_qual) == seq_trim_from(qual_str, min_qual, 0)

trim_coords(qual_str, min_qual) ==
    LET start == seq_trim(qual_str, min_qual)
    IN  IF start = Len(qual_str)
        THEN <<0, 0, 0>>
        ELSE LET end == Len(qual_str) - seq_trim(Reverse(qual_str), min_qual)
             IN  <<start, end, end - start>>

\* trim_qual: <<>> for None, else <<read with seq and qual cut to the slice>>.
trim_qual(read, min_qual, min_len) ==
    LET start == seq_trim(read.qual, min_qual)
    IN  IF start = Len(read.qual)
        THEN <<>>
        ELSE LET end == Len(read.qual) - seq_trim(Reverse(read.qual), min_qual)
             IN  IF end - start < min_len
                 THEN <<>>
                 ELSE <<[read EXCEPT !.seq = PySlice(read.seq, start, end),
                                     !.qual = PySlice(read.qual, start, end)]>>

(***************************************************************************)
(* PairOverlapResolver: check_overlap, check_pair_overlap.                 *)
(***************************************************************************)
check_overlap(dir, mate_seq, clip_seq) ==
    IF dir = "back"
    THEN Find(mate_seq, clip_seq) # Len(mate_seq) - Len(clip_seq)
    ELSE Find(mate_seq, clip_seq) # 0

\* The cap on the shrink iterations (nmisses < 5, nmisses == 5).
MaxMisses == 5

\* The loop condition of line 62.
ShrinkCond(trim_dir, mate_seq, clip_seq, nmisses) ==
    /\ check_overlap(trim_dir, mate_seq, clip_seq)
    /\ nmisses < MaxMisses
    /\ Len(clip_seq) > 0

\* One iteration's body, lines 63-66: the literal the code compares with is 'bacl'.
ShrinkOnce(trim_dir, clip_seq) ==
    IF trim_dir = "bacl"
    THEN PySlice(clip_seq, 0, Len(clip_seq) - 1)
    ELSE PySlice(clip_seq, 1, Len(clip_seq))

RECURSIVE ShrinkLoop(_, _, _, _)
ShrinkLoop(trim_dir, mate_seq, clip_seq, nmisses) ==
    IF ShrinkCond(trim_dir, mate_seq, clip_seq, nmisses)
    THEN ShrinkLoop(trim_dir, mate_seq, ShrinkOnce(trim_dir, clip_seq), nmisses + 1)
    ELSE [clip_seq |-> clip_seq, nmisses |-> nmisses]

\* Lines 68-71: the verdict after the loop.
ShrinkVerdict(clip_seq, nmisses) == Len(clip_seq) = 0 \/ nmisses = MaxMisses

\* Line 58: the first policy applies.
InsertPolicy(read) == Abs(read.tlen) < Len(read.seq)

\* Lines 59-60: the verdict of the first policy.
InsertVerdict(read, clip_len) ==
    ~(Abs(Len(read.seq) - (Abs(read.tlen) + 1)) >= clip_len)

check_pair_overlap(mate_seq, read, coords, trim_dir) ==
    LET clip_seq == PySlice(read.seq, coords[1], coords[2])
        clip_len == coords[2] - coords[1]
    IN  IF InsertPolicy(read)
        THEN InsertVerdict(read, clip_len)
        ELSE LET end == ShrinkLoop(trim_dir, mate_seq, clip_seq, 0)
             IN  ShrinkVerdict(end.clip_seq, end.nmisses)

(***************************************************************************)
(* A read object: [qname, flag, tid, rnext, pos, pnext, mapq, tlen, cigar, *)
(* seq, qual].  mpos is pysam's alias of pnext and isize its alias of      *)
(* tlen.  The boolean properties are the bits of flag, as in pysam.        *)
(***************************************************************************)
FlagBit(read, bit) == (read.flag \div bit) % 2 = 1

is_unmapped(read) == FlagBit(read, 4)

mate_is_unmapped(read) == FlagBit(read, 8)

is_reverse(read) == FlagBit(read, 16)

mate_is_reverse(read) == FlagBit(read, 32)

is_read1(read) == FlagBit(read, 64)

is_read2(read) == FlagBit(read, 128)

is_qcfail(read) == FlagBit(read, 512)

is_duplicate(read) == FlagBit(read, 1024)

\* read.mate_is_unmapped = True (line 213): the setter sets the bit of flag.
set_mate_is_unmapped(read) ==
    IF mate_is_unmapped(read) THEN read ELSE [read EXCEPT !.flag = @ + 8]

\* int(read.is_read1)
IntBool(b) == IF b THEN 1 ELSE 0

get_seq_readname(read) ==
    read.qname \o "/" \o (IF is_read2(read) THEN "2" ELSE "1")

(***************************************************************************)
(* ClipGeometry: get_clip_coords.  A cigar is a sequence of <<code, len>>. *)
(***************************************************************************)
\* The body of the loop of lines 101-110 for operation i (0-based).
ClipStep(coords, i, op) ==
    LET code == op[1]
        clen == op[2]
        c1 == IF code # 2 /\ code # 4 THEN <<coords[1], coords[2] + clen>> ELSE coords
    IN  IF code = 4 /\ i = 0 THEN <<clen, c1[2] + clen>> ELSE c1

RECURSIVE ClipWalk(_, _, _)
ClipWalk(cigar, i, coords) ==
    IF i = Len(cigar) THEN coords
    ELSE ClipWalk(cigar, i + 1, ClipStep(coords, i, cigar[i + 1]))

get_clip_coords(read) ==
    IF Len(read.cigar) = 0
    THEN <<0, Len(read.qual)>>
    ELSE ClipWalk(read.cigar, 0, <<0, 0>>)

(***************************************************************************)
(* ReadClassifier: pe_meta.                                                *)
(***************************************************************************)
ProperFlags(read) ==
    \/ read.flag \in {83, 147} /\ read.tlen < 0
    \/ read.flag \in {99, 163} /\ read.tlen > 0

pe_meta(read) ==
    LET proper_map == ProperFlags(read)
    IN  <<proper_map, proper_map /\ Abs(read.tlen) < 2 * Len(read.seq)>>

(***************************************************************************)
(* The alignment source.  A read id is <<qname, end>>; the mate of a read  *)
(* is the record of the same name with the other end.                      *)
(***************************************************************************)
MateId(rid) == <<rid[1], 3 - rid[2]>>

\* self.bam.mate(read)
bam_mate(rid) == bamfile[MateId(rid)]

RefNames == <<"chr1", "chr2">>

\* self.bam.getrname(tid)
getrname(tid) == RefNames[tid + 1]

\* Python's d[k] = v on a dict held as a function.
DictSet(d, k, v) == [x \in DOMAIN d \cup {k} |-> IF x = k THEN v ELSE d[x]]

(***************************************************************************)
(* VariantReadTracker: the first pass (check_read, add_discordant_pe,      *)
(* add_unmapped_read) and one iteration of the loop of get_variant_reads.  *)
(***************************************************************************)
\* abs(read.tlen) >= 500
DiscInsertSize == 500

diff_chroms(read) == read.rnext # -1 /\ read.tid # read.rnext

disc_ins_size(read) == Abs(read.tlen) >= DiscInsertSize

\* Lines 289-292: the pair is recorded in disc.
DiscQualifies(rid, read) ==
    /\ read.mapq > 0
    /\ ~mate_is_unmapped(read)
    /\ (diff_chroms(read) \/ disc_ins_size(read))
    /\ bam_mate(rid).mapq > 0

\* Lines 293-295.
DiscAdd(d, read) ==
    LET mate_refid == getrname(read.rnext)
        old == IF mate_refid \in DOMAIN d THEN d[mate_refid] ELSE <<>>
    IN  DictSet(d, mate_refid, Append(old, <<read.pos, read.pnext>>))

\* Lines 297-319: <<list, read_positions>>, list "none" when no case applies.
SignalOf(read) ==
    LET p == read.pos
        m == read.pnext
        q == read.qname
    IN  IF ~(read.mapq > 0 /\ ~mate_is_unmapped(read) /\ read.tid = read.rnext
             /\ is_read1(read))
        THEN <<"none", <<>>>>
        ELSE IF is_reverse(read) /\ mate_is_reverse(read)
        THEN <<"inv", IF m < p THEN <<m, p, 0, 0, q>> ELSE <<p, m, 0, 0, q>>>>
        ELSE IF ~is_reverse(read) /\ ~mate_is_reverse(read)
        THEN <<"inv", IF m < p THEN <<m, p, 1, 1, q>> ELSE <<p, m, 1, 1, q>>>>
        ELSE IF is_reverse(read) /\ ~mate_is_reverse(read) /\ p < m
        THEN <<"td", <<p, m, 0, 1, q>>>>
        ELSE IF ~is_reverse(read) /\ mate_is_reverse(read) /\ m < p
        THEN <<"td", <<m, p, 1, 0, q>>>>
        ELSE <<"none", <<>>>>

\* The guard without the test on pair_indices: every end classifies the pair.
FirstOfPairEveryEnd(read) == ~mate_is_unmapped(read)

\* Line 265 (and 269): the guard under which check_read classifies the pair.
FirstOfPair(read) ==
    read.qname \notin DOMAIN pair_indices /\ ~mate_is_unmapped(read)

add_discordant_pe(rid) ==
    LET read == reads'[rid]
        sig == SignalOf(read)
    IN  /\ disc' = IF DiscQualifies(rid, read) THEN DiscAdd(disc, read) ELSE disc
        /\ inv' = IF sig[1] = "inv" THEN Append(inv, sig[2]) ELSE inv
        /\ td' = IF sig[1] = "td" THEN Append(td, sig[2]) ELSE td
        /\ other' = IF sig[1] # "none" THEN Append(other, sig[2]) ELSE other

check_read(rid) ==
    LET read == reads'[rid]
        pm == pe_meta(read)
        slot == IntBool(is_read1(read))
        idx == Len(valid)
        pi1 == IF FirstOfPair(read)
               THEN DictSet(pair_indices, read.qname, <<>>)
               ELSE pair_indices
    IN  /\ IF FirstOfPair(read)
           THEN add_discordant_pe(rid)
           ELSE UNCHANGED <<disc, inv, td, other>>
        /\ valid' = Append(valid, <<rid, pm[1], pm[2]>>)
        /\ pair_indices' =
              IF read.qname \in DOMAIN pi1
              THEN [pi1 EXCEPT ![read.qname] = DictSet(@, slot, idx)]
              ELSE pi1

\* self.unmapped[read.qname] = read
add_unmapped_read(rid) == unmapped' = DictSet(unmapped, reads[rid].qname, rid)

\* The tracker has been handed to the caller: the loop of lines 210-222 is over.
FetchOver ==
    calls.check_clippings + calls.write_seqs > 0 \/ sv_none

\* Lines 211-222 for the next read of the fetch.
Ingest(rid) ==
    LET read == reads[rid]
        norm == IF mate_is_unmapped(read) \/ read.rnext = -1
                THEN set_mate_is_unmapped(read)
                ELSE read
        skip == is_duplicate(read) \/ is_qcfail(read) \/ is_unmapped(read)
    IN  /\ ~FetchOver
        /\ rid \notin fetched
        /\ fetched' = fetched \cup {rid}
        /\ reads' = [reads EXCEPT ![rid] = norm]
        /\ IF is_unmapped(read)
           THEN add_unmapped_read(rid)
           ELSE UNCHANGED unmapped
        /\ IF skip
           THEN UNCHANGED <<pair_indices, valid, disc, inv, td, other>>
           ELSE check_read(rid)
        /\ UNCHANGED <<unmapped_keep, sv, sv_none, bam, clipped_fa, reads_fq, sv_bam,
                       calls, trace, kmer_size, cpo, bamfile>>

(***************************************************************************)
(* The second pass: check_clippings and extract_clippings.                 *)
(***************************************************************************)
\* trim_coords(read.qual, 3)
MinCoordQual == 3

\* Lines 358 and 369: the sequence handed to check_pair_overlap as mate_seq.
MateSeqSlot(read) == IntBool(is_read1(read))

MateSeqOf(read) ==
    reads[valid[pair_indices[read.qname][MateSeqSlot(read)] + 1][1]].seq

\* The early return with the comparison of the starts turned around.
ClipCoversStartTurned(clip_coords, good_qual_coords) ==
    clip_coords[1] >= good_qual_coords[1] /\ clip_coords[2] >= good_qual_coords[2]

\* Line 343: the early return.
ClipCovers(clip_coords, good_qual_coords) ==
    clip_coords[1] <= good_qual_coords[1] /\ clip_coords[2] >= good_qual_coords[2]

\* Lines 378 and 381: the buffered fragments.
BufferedStart(read, clip_coords, ksize) ==
    PySlice(read.seq, 0, clip_coords[1] + ksize)

BufferedEnd(read, clip_coords, ksize) ==
    PySlice(read.seq, clip_coords[2] - ksize, Len(read.seq))

\* extract_clippings: what it returns early on, which resolver call it makes,
\* and the entry it stores in sv when final_add holds.
extract_clippings(read_vals, clip_coords, good_qual_coords, ksize) ==
    LET read == reads[read_vals[1]]
        proper_map == read_vals[2]
        overlap_reads == read_vals[3]
        start_clip == clip_coords[1] > 0
        end_clip == clip_coords[2] < Len(read.qual)
        both == start_clip /\ end_clip
        only_start == ~both /\ start_clip
        only_end == ~both /\ ~start_clip /\ end_clip
        ask_back == only_start /\ overlap_reads /\ is_reverse(read)
        ask_front == only_end /\ overlap_reads /\ ~is_reverse(read)
        add0 == IF both THEN TRUE
                ELSE IF ask_back
                THEN check_pair_overlap(MateSeqOf(read), read,
                                        <<0, clip_coords[1]>>, "back")
                ELSE only_start
        add1 == IF both THEN TRUE
                ELSE IF ask_front
                THEN check_pair_overlap(MateSeqOf(read), read,
                                        <<clip_coords[2], Len(read.seq)>>, "front")
                ELSE only_end
        new_clip_coords == IF only_start THEN <<0, clip_coords[1]>>
                           ELSE IF only_end THEN <<clip_coords[2], Len(read.seq)>>
                           ELSE <<0, 0>>
        indel0 == FALSE
        indel_only == IF only_start /\ proper_map THEN is_reverse(read)
                      ELSE IF only_end /\ proper_map
                      THEN (IF is_reverse(read) THEN indel0 /\ FALSE ELSE indel0 /\ TRUE)
                      ELSE indel0
        clip_seqs ==
            [buffered |->
                (IF add0 THEN <<BufferedStart(read, clip_coords, ksize)>> ELSE <<>>)
                \o (IF add1 THEN <<BufferedEnd(read, clip_coords, ksize)>> ELSE <<>>),
             clipped |->
                (IF add0 THEN <<PySlice(read.seq, 0, clip_coords[1])>> ELSE <<>>)
                \o (IF add1 THEN <<PySlice(read.seq, clip_coords[2], Len(read.seq))>>
                    ELSE <<>>)]
    IN  IF ClipCovers(clip_coords, good_qual_coords)
        THEN [early |-> TRUE, final_add |-> FALSE, add_clip |-> <<FALSE, FALSE>>,
              asked |-> "no", mate_seq |-> <<>>,
              entry |-> <<>>]
        ELSE [early |-> FALSE, final_add |-> add0 \/ add1, add_clip |-> <<add0, add1>>,
              asked |-> IF ask_back THEN "back" ELSE IF ask_front THEN "front" ELSE "no",
              mate_seq |-> IF ask_back \/ ask_front THEN MateSeqOf(read) ELSE <<>>,
              entry |-> <<read_vals[1], <<clip_seqs>>, new_clip_coords, indel_only>>]

\* A store that adds the fragments to the ones already held under the name.
SvStoreAdding(d, name, entry) ==
    IF name \in DOMAIN d
    THEN DictSet(d, name, <<entry[1], d[name][2] \o entry[2], entry[3], entry[4]>>)
    ELSE DictSet(d, name, entry)

\* Line 384: self.sv[name] = entry
SvStore(d, name, entry) == DictSet(d, name, entry)

\* Line 328: read.cigar or len(read.cigar) > 1
HasCigar(read) == Len(read.cigar) > 0 \/ Len(read.cigar) > 1

\* The test of line 333 with the region's start excluded.
KeepsUnmappedMateInside(read, region_start_pos, region_end_pos) ==
    /\ read.pos > region_start_pos /\ read.pos <= region_end_pos
    /\ read.mapq > 0
    /\ mate_is_unmapped(read)

\* Line 333: the read's unmapped mate is worth keeping.
KeepsUnmappedMate(read, region_start_pos, region_end_pos) ==
    /\ read.pos >= region_start_pos /\ read.pos <= region_end_pos
    /\ read.mapq > 0
    /\ mate_is_unmapped(read)

\* The loop of check_clippings from valid[i] (0-based) on, threading sv,
\* unmapped_keep and the locals of each iteration.
RECURSIVE ClipPass(_, _, _, _, _, _)
ClipPass(i, ksize, region, svAcc, keepAcc, traceAcc) ==
    IF i = Len(valid) THEN [sv |-> svAcc, keep |-> keepAcc, trace |-> traceAcc]
    ELSE
        LET read_vals == valid[i + 1]
            read == reads[read_vals[1]]
            good_qual_coords == trim_coords(read.qual, MinCoordQual)
            clip_coords == get_clip_coords(read)
            x == extract_clippings(read_vals, clip_coords, good_qual_coords, ksize)
            sv1 == IF HasCigar(read) /\ x.final_add
                   THEN SvStore(svAcc, get_seq_readname(read), x.entry)
                   ELSE svAcc
            keep1 == IF KeepsUnmappedMate(read, region[1], region[2])
                     THEN Append(keepAcc, read.qname)
                     ELSE keepAcc
            t == IF HasCigar(read)
                 THEN [rid |-> read_vals[1], ran |-> TRUE, clip_coords |-> clip_coords,
                       good_qual_coords |-> good_qual_coords, early |-> x.early,
                       add_clip |-> x.add_clip, asked |-> x.asked,
                       mate_seq |-> x.mate_seq]
                 ELSE [rid |-> read_vals[1], ran |-> FALSE, clip_coords |-> <<>>,
                       good_qual_coords |-> <<>>, early |-> FALSE,
                       add_clip |-> <<FALSE, FALSE>>, asked |-> "no",
                       mate_seq |-> <<>>]
        IN  ClipPass(i + 1, ksize, region, sv1, keep1, Append(traceAcc, t))

\* The region bounds the caller passes to check_clippings.
Region == <<1, 2>>

\* How often the caller may run the second pass and the emitter.
MaxEvals == 2

MaxEmits == 2

\* check_clippings(kmer_size, region_start_pos, region_end_pos), the whole pass.
CheckClippings ==
    LET r == ClipPass(0, kmer_size, Region, sv, unmapped_keep, <<>>)
    IN  /\ calls.check_clippings < MaxEvals
        /\ calls.write_seqs = 0
        /\ ~sv_none
        /\ sv' = r.sv
        /\ unmapped_keep' = r.keep
        /\ trace' = r.trace
        /\ calls' = [calls EXCEPT !.check_clippings = @ + 1]
        /\ UNCHANGED <<reads, fetched, pair_indices, valid, disc, unmapped, inv, td,
                       other, sv_none, bam, clipped_fa, reads_fq, sv_bam, kmer_size, cpo, bamfile>>

(***************************************************************************)
(* FragmentEmitter: fq_line, write_seqs, clear_sv_reads.  A sink is the    *)
(* multiset of the entries written to it (entry |-> count): the order of   *)
(* the second loop is the dict's, which the model leaves open.             *)
(***************************************************************************)
Put(sink, e) ==
    [x \in DOMAIN sink \cup {e} |->
        IF x = e THEN (IF e \in DOMAIN sink THEN sink[e] + 1 ELSE 1) ELSE sink[x]]

RECURSIVE PutAll(_, _, _)
PutAll(sink, name, clips) ==
    IF clips = <<>> THEN sink
    ELSE PutAll(Put(sink, [name |-> name, seq |-> Head(clips)]), name, Tail(clips))

\* trim_qual(read, 5, min_len) inside fq_line
MinLineQual == 5

\* fq_line(read, indel_only, min_len, True): <<>> for None, else <<trimmed read, line>>.
fq_line(read, indel_only, min_len) ==
    LET t == trim_qual(read, MinLineQual, min_len)
    IN  IF t = <<>> THEN <<>>
        ELSE <<t[1], [name |-> get_seq_readname(t[1]) \o "_"
                                  \o (IF indel_only THEN "1" ELSE "0"),
                      seq |-> t[1].seq, qual |-> t[1].qual]>>

\* The state write_seqs works on.
EmitState == [sv |-> sv, reads |-> reads, fa |-> clipped_fa, fq |-> reads_fq,
              bamout |-> sv_bam]

\* Lines 391-395 for one name of unmapped_keep; wrote is FALSE when the write
\* of line 395 raised.
EmitUnmapped(E, name, wrote) ==
    IF name \notin DOMAIN unmapped THEN E
    ELSE LET rid == unmapped[name]
             read == E.reads[rid]
             E1 == [E EXCEPT !.sv = DictSet(@, get_seq_readname(read),
                                            <<rid, <<>>, <<>>, FALSE>>)]
         IN  IF wrote
             THEN [E1 EXCEPT !.fa = Put(@, [name |-> read.qname, seq |-> read.seq])]
             ELSE E1

RECURSIVE EmitUnmappedUpTo(_, _, _)
EmitUnmappedUpTo(E, j, n) ==
    IF j > n THEN E
    ELSE EmitUnmappedUpTo(EmitUnmapped(E, unmapped_keep[j], TRUE), j + 1, n)

\* Lines 398-406 for one name of sv.
EmitEntry(E, name, with_bam) ==
    LET entry == E.sv[name]
        rid == entry[1]
        read == E.reads[rid]
        line == fq_line(read, entry[4], kmer_size)
        E1 == IF with_bam THEN [E EXCEPT !.bamout = Put(@, read)] ELSE E
        E2 == IF line = <<>> THEN E1
              ELSE [E1 EXCEPT !.reads[rid] = line[1], !.fq = Put(@, line[2])]
    IN  IF entry[2] = <<>> THEN E2
        ELSE [E2 EXCEPT !.fa = PutAll(@, name, entry[2][1].buffered)]

\* Lines 398-403 for a name whose first write raises: nothing is written, and
\* the read is trimmed already when the write that raises is not sv_bam's.
EmitEntryRaises(E, name, with_bam) ==
    LET entry == E.sv[name]
        rid == entry[1]
        line == fq_line(E.reads[rid], entry[4], kmer_size)
    IN  IF with_bam \/ line = <<>> THEN E
        ELSE [E EXCEPT !.reads[rid] = line[1]]

\* Whether the second loop writes anything at all for this name.
WritesFor(E, name, with_bam) ==
    LET entry == E.sv[name]
    IN  \/ with_bam
        \/ fq_line(E.reads[entry[1]], entry[4], kmer_size) # <<>>
        \/ (entry[2] # <<>> /\ entry[2][1].buffered # <<>>)

RECURSIVE EmitEntries(_, _, _)
EmitEntries(E, names, with_bam) ==
    IF names = {} THEN E
    ELSE LET n == CHOOSE x \in names : TRUE
         IN  EmitEntries(EmitEntry(E, n, with_bam), names \ {n}, with_bam)

Emitted(E) ==
    /\ sv' = E.sv
    /\ reads' = E.reads
    /\ clipped_fa' = E.fa
    /\ reads_fq' = E.fq
    /\ sv_bam' = E.bamout

CanEmit == calls.write_seqs < MaxEmits

\* write_seqs runs to its end: both loops, then self.bam.close().
WriteSeqs(with_bam) ==
    LET E1 == EmitUnmappedUpTo(EmitState, 1, Len(unmapped_keep))
        E2 == EmitEntries(E1, DOMAIN E1.sv, with_bam)
    IN  /\ CanEmit
        /\ ~sv_none
        /\ Emitted(E2)
        /\ bam' = [bam EXCEPT !.closes = @ + 1]
        /\ calls' = [calls EXCEPT !.write_seqs = @ + 1]
        /\ UNCHANGED <<fetched, pair_indices, valid, disc, unmapped, unmapped_keep, inv,
                       td, other, sv_none, trace, kmer_size, cpo, bamfile>>

\* write_seqs leaves through the exception a sink raises in the first loop, at
\* the write for unmapped_keep[j]: line 407 is not reached.
WriteSeqsRaisesUnmapped(j) ==
    LET E0 == EmitUnmappedUpTo(EmitState, 1, j - 1)
        E1 == EmitUnmapped(E0, unmapped_keep[j], FALSE)
    IN  /\ CanEmit
        /\ ~sv_none
        /\ unmapped_keep[j] \in DOMAIN unmapped
        /\ Emitted(E1)
        /\ calls' = [calls EXCEPT !.write_seqs = @ + 1]
        /\ UNCHANGED <<fetched, pair_indices, valid, disc, unmapped, unmapped_keep, inv,
                       td, other, sv_none, bam, trace, kmer_size, cpo, bamfile>>

\* write_seqs leaves through the exception a sink raises in the second loop,
\* at the first write for name, the names of done having been written.
WriteSeqsRaisesEntry(done, name, with_bam) ==
    LET E1 == EmitUnmappedUpTo(EmitState, 1, Len(unmapped_keep))
        E2 == EmitEntries(E1, done, with_bam)
        E3 == EmitEntryRaises(E2, name, with_bam)
    IN  /\ CanEmit
        /\ ~sv_none
        /\ name \in DOMAIN E1.sv
        /\ done \subseteq DOMAIN E1.sv \ {name}
        /\ WritesFor(E2, name, with_bam)
        /\ Emitted(E3)
        /\ calls' = [calls EXCEPT !.write_seqs = @ + 1]
        /\ UNCHANGED <<fetched, pair_indices, valid, disc, unmapped, unmapped_keep, inv,
                       td, other, sv_none, bam, trace, kmer_size, cpo, bamfile>>

\* write_seqs after clear_sv_reads: self.sv is None, line 393 or line 397
\* raises TypeError before anything is written.
WriteSeqsOnNone ==
    /\ CanEmit
    /\ sv_none
    /\ calls' = [calls EXCEPT !.write_seqs = @ + 1]
    /\ UNCHANGED <<reads, fetched, pair_indices, valid, disc, unmapped, unmapped_keep,
                   inv, td, other, sv, sv_none, bam, clipped_fa, reads_fq, sv_bam,
                   trace, kmer_size, cpo, bamfile>>

\* clear_sv_reads: self.sv = None (a repeated call changes nothing).
ClearSvReads ==
    /\ ~sv_none
    /\ sv_none' = TRUE
    /\ sv' = <<>>
    /\ UNCHANGED <<reads, fetched, pair_indices, valid, disc, unmapped, unmapped_keep,
                   inv, td, other, bam, clipped_fa, reads_fq, sv_bam, calls, trace,
                   kmer_size, cpo, bamfile>>

(***************************************************************************)
(* The alignment files the tracker is run on.  A pair is described by a    *)
(* layout record; PairReads builds its two records the way an aligner      *)
(* writes them (each end carries its mate's chromosome, position and       *)
(* strand, the leftmost end the positive template length).                 *)
(***************************************************************************)
SeqACGT == <<"A", "C", "G", "T">>

SeqAAAA == <<"A", "A", "A", "A">>

SeqTTGA == <<"T", "T", "G", "A">>

\* Quality strings: 'I' is Phred 40, '%' Phred 4, '#' Phred 2.
QualGood == <<73, 73, 73, 73>>

QualLowTail == <<73, 73, 73, 35>>

QualMidHead == <<37, 73, 73, 73>>

QualAllLow == <<35, 35, 35, 35>>

CigFull == <<<<0, 4>>>>

CigStart1 == <<<<4, 1>>, <<0, 3>>>>

CigStart2 == <<<<4, 2>>, <<0, 2>>>>

CigEnd1 == <<<<0, 3>>, <<4, 1>>>>

CigEnd2 == <<<<0, 2>>, <<4, 2>>>>

CigBoth == <<<<4, 1>>, <<0, 2>>, <<4, 1>>>>

BaseLayout ==
    [paired |-> TRUE, unm |-> 0, proper |-> FALSE, tid2 |-> 0,
     pos1 |-> 1, pos2 |-> 3, rev1 |-> FALSE, rev2 |-> TRUE,
     mapq1 |-> 10, mapq2 |-> 10, skip1 |-> 0, skip2 |-> 0, ins |-> 9,
     cig1 |-> CigFull, cig2 |-> CigFull, qual1 |-> QualGood, qual2 |-> QualGood,
     seq1 |-> SeqACGT, seq2 |-> SeqTTGA]

\* The fields of end e of a layout.
EndOf(c, e) ==
    IF e = 1
    THEN [tid |-> 0, pos |-> c.pos1, rev |-> c.rev1, mapq |-> c.mapq1, skip |-> c.skip1,
          cigar |-> c.cig1, qual |-> c.qual1, seq |-> c.seq1]
    ELSE [tid |-> c.tid2, pos |-> c.pos2, rev |-> c.rev2, mapq |-> c.mapq2,
          skip |-> c.skip2, cigar |-> c.cig2, qual |-> c.qual2, seq |-> c.seq2]

\* The record of end e of pair q laid out as c.
ReadOf(q, c, e) ==
    LET me == EndOf(c, e)
        mt == EndOf(c, 3 - e)
        endbit == IF e = 1 THEN 64 ELSE 128
        leftmost == me.pos < mt.pos \/ (me.pos = mt.pos /\ e = 1)
    IN  IF ~c.paired
        THEN [qname |-> q, flag |-> (IF me.rev THEN 16 ELSE 0) + me.skip,
              tid |-> me.tid, rnext |-> -1, pos |-> me.pos, pnext |-> -1,
              mapq |-> me.mapq, tlen |-> 0,
              cigar |-> me.cigar, seq |-> me.seq, qual |-> me.qual]
        ELSE IF c.unm = e
        THEN [qname |-> q, flag |-> 1 + 4 + (IF mt.rev THEN 32 ELSE 0) + endbit + me.skip,
              tid |-> mt.tid, rnext |-> mt.tid, pos |-> mt.pos, pnext |-> mt.pos,
              mapq |-> 0, tlen |-> 0,
              cigar |-> <<>>, seq |-> me.seq, qual |-> me.qual]
        ELSE IF c.unm = 3 - e
        THEN [qname |-> q, flag |-> 1 + 8 + (IF me.rev THEN 16 ELSE 0) + endbit + me.skip,
              tid |-> me.tid, rnext |-> me.tid, pos |-> me.pos, pnext |-> me.pos,
              mapq |-> me.mapq, tlen |-> 0,
              cigar |-> me.cigar, seq |-> me.seq, qual |-> me.qual]
        ELSE [qname |-> q,
              flag |-> 1 + (IF c.proper THEN 2 ELSE 0) + (IF me.rev THEN 16 ELSE 0)
                         + (IF mt.rev THEN 32 ELSE 0) + endbit + me.skip,
              tid |-> me.tid, rnext |-> mt.tid, pos |-> me.pos, pnext |-> mt.pos,
              mapq |-> me.mapq,
              tlen |-> IF me.tid # mt.tid THEN 0
                       ELSE IF leftmost THEN c.ins ELSE -c.ins,
              cigar |-> me.cigar, seq |-> me.seq, qual |-> me.qual]

\* The records of pair q: both ends, or the one record of a single-end read.
PairReads(q, c) ==
    [rid \in (IF c.paired THEN {<<q, 1>>, <<q, 2>>} ELSE {<<q, 1>>}) |->
        ReadOf(q, c, rid[2])]

SkipFlags == {0, 512, 1024}

\* Pairs on two chromosomes.
CrossLayouts ==
    {[BaseLayout EXCEPT !.tid2 = 1, !.mapq1 = a, !.mapq2 = b, !.skip1 = s, !.skip2 = t] :
        a \in {0, 10}, b \in {0, 10}, s \in SkipFlags, t \in {0, 1024}}

\* Pairs on one chromosome, in every orientation and order.
OrientLayouts ==
    {[BaseLayout EXCEPT !.pos1 = p[1], !.pos2 = p[2], !.rev1 = r, !.rev2 = s,
                        !.mapq1 = ai[1], !.ins = ai[2]] :
        p \in {<<1, 3>>, <<3, 1>>, <<1, 1>>}, r \in BOOLEAN, s \in BOOLEAN,
        ai \in {<<10, 9>>, <<10, 600>>, <<0, 9>>}}

\* Properly oriented pairs with clipped ends.
ClipLayouts ==
    {[BaseLayout EXCEPT !.proper = TRUE, !.rev1 = r, !.rev2 = ~r,
                        !.pos1 = IF r THEN 3 ELSE 1, !.pos2 = IF r THEN 1 ELSE 3,
                        !.ins = i, !.cig1 = c, !.cig2 = CigStart1, !.qual1 = q,
                        !.seq1 = s] :
        r \in BOOLEAN, i \in {2, 5, 9},
        c \in {CigFull, CigStart1, CigStart2, CigEnd1, CigEnd2, CigBoth},
        q \in {QualGood, QualLowTail},
        s \in {SeqACGT, SeqAAAA}}

\* Pairs one end of which is unmapped, and single-end reads.
UnmappedLayouts ==
    {[BaseLayout EXCEPT !.unm = u, !.pos1 = p, !.pos2 = p, !.mapq1 = a, !.mapq2 = a,
                        !.cig1 = c, !.cig2 = c, !.qual1 = q, !.qual2 = q] :
        u \in {1, 2}, p \in {1, 3}, a \in {0, 10}, c \in {CigFull, CigEnd1},
        q \in {QualGood, QualMidHead, QualAllLow}}
    \cup {[BaseLayout EXCEPT !.unm = 2, !.skip1 = s] : s \in {512, 1024}}
    \cup {[BaseLayout EXCEPT !.paired = FALSE, !.pos1 = p, !.cig1 = c] :
            p \in {1, 3}, c \in {CigFull, CigEnd1}}

Layouts == CrossLayouts \cup OrientLayouts \cup ClipLayouts \cup UnmappedLayouts

\* The layouts of the files that hold two pairs.
FirstOfTwo ==
    {[BaseLayout EXCEPT !.tid2 = 1],
     [BaseLayout EXCEPT !.tid2 = 1, !.mapq2 = 0],
     [BaseLayout EXCEPT !.unm = 2, !.cig1 = CigEnd1],
     [BaseLayout EXCEPT !.rev1 = TRUE],
     [BaseLayout EXCEPT !.proper = TRUE, !.ins = 5, !.cig1 = CigEnd1, !.cig2 = CigStart1]}

SecondOfTwo ==
    {[BaseLayout EXCEPT !.tid2 = 1, !.pos1 = 3, !.pos2 = 1],
     [BaseLayout EXCEPT !.unm = 1, !.pos1 = 1, !.pos2 = 1, !.cig2 = CigStart2]}

BamFiles ==
    {PairReads("q1", c) : c \in Layouts}
    \cup {PairReads("q1", c) @@ PairReads("q2", d) : c \in FirstOfTwo, d \in SecondOfTwo}

\* The kmer sizes the caller may pass.
MaxKmer == 2

TrackerInit ==
    /\ fetched = {}
    /\ pair_indices = <<>>
    /\ valid = <<>>
    /\ disc = <<>>
    /\ unmapped = <<>>
    /\ unmapped_keep = <<>>
    /\ inv = <<>>
    /\ td = <<>>
    /\ other = <<>>
    /\ sv = <<>>
    /\ sv_none = FALSE
    /\ bam = [closes |-> 0]
    /\ clipped_fa = <<>>
    /\ reads_fq = <<>>
    /\ sv_bam = <<>>
    /\ calls = [check_clippings |-> 0, write_seqs |-> 0]
    /\ trace = <<>>

CpoIdle == [pc |-> "idle"]

Init ==
    /\ bamfile \in BamFiles
    /\ reads = bamfile
    /\ kmer_size \in 1..MaxKmer
    /\ TrackerInit
    /\ cpo = CpoIdle

Next ==
    \/ \E rid \in DOMAIN reads : Ingest(rid)
    \/ CheckClippings
    \/ \E with_bam \in BOOLEAN : WriteSeqs(with_bam)
    \/ \E j \in 1..Len(unmapped_keep) : WriteSeqsRaisesUnmapped(j)
    \/ \E with_bam \in BOOLEAN, name \in DOMAIN sv \cup {get_seq_readname(reads[r]) : r \in DOMAIN reads} :
          \E done \in SUBSET (DOMAIN sv \cup {get_seq_readname(reads[r]) : r \in DOMAIN reads}) :
              WriteSeqsRaisesEntry(done, name, with_bam)
    \/ WriteSeqsOnNone
    \/ ClearSvReads

Spec == Init /\ [][Next]_vars

\* The tracker with sinks that do not fail in the second loop of write_seqs:
\* the fetch, the second pass, the emitter and the teardown.
NextPasses ==
    \/ \E rid \in DOMAIN reads : Ingest(rid)
    \/ CheckClippings
    \/ \E with_bam \in BOOLEAN : WriteSeqs(with_bam)
    \/ \E j \in 1..Len(unmapped_keep) : WriteSeqsRaisesUnmapped(j)
    \/ ClearSvReads

SpecPasses == Init /\ [][NextPasses]_vars

(***************************************************************************)
(* The properties of the tracker.                                          *)
(***************************************************************************)
InValid(rid) == \E i \in 1..Len(valid) : valid[i][1] = rid

QNames == {rid[1] : rid \in DOMAIN bamfile}

BothEnds(q) == <<q, 1>> \in DOMAIN bamfile /\ <<q, 2>> \in DOMAIN bamfile

\* C1: the alignment handle is closed exactly once on every path: never
\* twice, and once the tracker has been through an emit (completed or
\* failed) or through clear_sv_reads it has been closed.
C1_ClosedExactlyOnce ==
    /\ bam.closes <= 1
    /\ (calls.write_seqs > 0 \/ sv_none) => bam.closes = 1

\* C1, the two halves apart: the handle is never closed twice; the handle is
\* not left open by an emit or by the teardown.
C1_NeverClosedTwice == bam.closes <= 1

C1_NeverLeftOpen == (calls.write_seqs > 0 \/ sv_none) => bam.closes = 1

\* C2: a second check_clippings on the state the first one left, with the
\* same kmer_size and region bounds, leaves sv with the same keys and the
\* same (read, fragments, clip coordinates, indel_only) value per key.
C2_SecondPassKeepsSv ==
    (calls.check_clippings >= 1 /\ calls'.check_clippings = calls.check_clippings + 1)
        => sv' = sv

C2_EvaluateIdempotent == [][C2_SecondPassKeepsSv]_vars

\* The second pass has run twice and candidates are recorded.
C2_Witness == calls.check_clippings = 2 /\ DOMAIN sv # {}

\* The entries of disc that are the view of an end of pair q: under the key
\* of the mate's chromosome, the pair (read.pos, mate.pos).
DiscEntriesOf(q) ==
    {ki \in UNION {{<<k, i>> : i \in 1..Len(disc[k])} : k \in DOMAIN disc} :
        \E e \in {<<q, 1>>, <<q, 2>>} :
            /\ ki[1] = getrname(bamfile[e].rnext)
            /\ disc[ki[1]][ki[2]] = <<bamfile[e].pos, bamfile[e].pnext>>
            /\ InValid(e)}

CrossPair(q) ==
    /\ BothEnds(q)
    /\ ~is_unmapped(bamfile[<<q, 1>>]) /\ ~is_unmapped(bamfile[<<q, 2>>])
    /\ bamfile[<<q, 1>>].tid # bamfile[<<q, 2>>].tid
    /\ bamfile[<<q, 1>>].mapq > 0 /\ bamfile[<<q, 2>>].mapq > 0

\* C3: a pair whose ends map to different chromosomes with mapping quality
\* > 0 on both, and of which at least one end that is not skipped has been
\* ingested, has exactly one entry in disc, under the key of the mate's
\* chromosome, as (read.pos, mate.pos), whichever ends were ingested and in
\* whatever order.
C3_CrossPairOnce ==
    \A q \in QNames :
        (CrossPair(q) /\ (InValid(<<q, 1>>) \/ InValid(<<q, 2>>))) =>
            Cardinality(DiscEntriesOf(q)) = 1

\* Both ends of a cross-chromosome pair have been ingested.
C3_Witness ==
    \E q \in QNames :
        /\ CrossPair(q) /\ InValid(<<q, 1>>) /\ InValid(<<q, 2>>)
        /\ Cardinality(DiscEntriesOf(q)) = 1

\* Only the end that is a duplicate-free second end has been ingested.
C3_WitnessOneEnd ==
    \E q \in QNames :
        /\ CrossPair(q) /\ ~InValid(<<q, 1>>) /\ InValid(<<q, 2>>)
        /\ <<q, 1>> \in fetched
        /\ Cardinality(DiscEntriesOf(q)) = 1

\* The unmapped reads recorded at ingest whose mapped mate has been ingested
\* with position inside the region and mapping quality > 0.
KeptUnmapped ==
    {rid \in fetched :
        /\ is_unmapped(reads[rid])
        /\ MateId(rid) \in DOMAIN bamfile
        /\ InValid(MateId(rid))
        /\ reads[MateId(rid)].pos >= Region[1]
        /\ reads[MateId(rid)].pos <= Region[2]
        /\ reads[MateId(rid)].mapq > 0}

FullSeqEntry(rid) == [name |-> rid[1], seq |-> bamfile[rid].seq]

SinkCount(sink, e) == IF e \in DOMAIN sink THEN sink[e] ELSE 0

\* C4: for such an unmapped read, after check_clippings the name is in
\* unmapped_keep whatever the mate's cigar; after an emit sv holds the
\* unmapped read with no fragments and indel_only false, and clipped_fa has
\* received the entry of the read's name and full sequence: one entry when
\* the second pass and the emitter have run once each.  (sv is gone once
\* clear_sv_reads has dropped it.)
C4_UnmappedKept ==
    \A rid \in KeptUnmapped :
        /\ calls.check_clippings >= 1 =>
             \E j \in 1..Len(unmapped_keep) : unmapped_keep[j] = rid[1]
        /\ (calls.check_clippings >= 1 /\ bam.closes >= 1) =>
             /\ sv_none \/ get_seq_readname(reads[rid]) \in DOMAIN sv
             /\ ~sv_none => sv[get_seq_readname(reads[rid])] = <<rid, <<>>, <<>>, FALSE>>
             /\ SinkCount(clipped_fa, FullSeqEntry(rid)) >= 1
        /\ (calls.check_clippings = 1 /\ calls.write_seqs = 1 /\ bam.closes = 1) =>
             /\ SinkCount(clipped_fa, FullSeqEntry(rid)) = 1
             /\ \A e \in DOMAIN clipped_fa : e.name = rid[1] => e = FullSeqEntry(rid)

\* An unmapped read with such a mate has been evaluated and emitted once.
C4_Witness ==
    \E rid \in KeptUnmapped :
        /\ calls.check_clippings = 1 /\ calls.write_seqs = 1 /\ bam.closes = 1
        /\ SinkCount(clipped_fa, FullSeqEntry(rid)) = 1

\* C8: whenever extract_clippings consults the overlap resolver, the
\* sequence passed as mate_seq is the full sequence of the read's mate, the
\* entry of valid with the same name and the other end.
C8_MateSeqIsMates ==
    \A i \in 1..Len(trace) :
        (trace[i].asked # "no" /\ InValid(MateId(trace[i].rid))) =>
            trace[i].mate_seq = bamfile[MateId(trace[i].rid)].seq

\* What the code passes instead: the read's own sequence.
C8_MateSeqIsOwn ==
    \A i \in 1..Len(trace) :
        trace[i].asked # "no" => trace[i].mate_seq = bamfile[trace[i].rid].seq

\* The tuples of pair q in a signal list.
RECURSIVE TuplesOf(_, _)
TuplesOf(list, q) ==
    IF list = <<>> THEN <<>>
    ELSE (IF Head(list)[5] = q THEN <<Head(list)>> ELSE <<>>) \o TuplesOf(Tail(list), q)

SamePair(q) ==
    /\ BothEnds(q)
    /\ ~is_unmapped(bamfile[<<q, 1>>]) /\ ~is_unmapped(bamfile[<<q, 2>>])
    /\ bamfile[<<q, 1>>].tid = bamfile[<<q, 2>>].tid
    /\ bamfile[<<q, 1>>].mapq > 0 /\ bamfile[<<q, 2>>].mapq > 0

\* The tuples the first-in-pair read of q yields for a list.
SignalTuples(q, list) ==
    LET sig == SignalOf(reads[<<q, 1>>])
    IN  IF sig[1] = list \/ (list = "other" /\ sig[1] # "none") THEN <<sig[2]>> ELSE <<>>

\* C10: for a same-chromosome pair with mapping quality > 0 and both mates
\* mapped, both reads ingested, the tuples in inv, td and other are the ones
\* the pair's orientation yields, whichever read was ingested first, and no
\* pair name has more than one tuple in other.
C10_SignalsOrderFree ==
    \A q \in QNames :
        /\ (SamePair(q) /\ InValid(<<q, 1>>) /\ InValid(<<q, 2>>)) =>
             /\ TuplesOf(inv, q) = SignalTuples(q, "inv")
             /\ TuplesOf(td, q) = SignalTuples(q, "td")
             /\ TuplesOf(other, q) = SignalTuples(q, "other")
        /\ Len(TuplesOf(other, q)) <= 1

\* C10's last part alone: no pair name has more than one tuple in other.
C10_AtMostOneSignal ==
    \A q \in QNames : Len(TuplesOf(other, q)) <= 1

(***************************************************************************)
(* The two passes on reads of every cigar shape: a properly oriented pair  *)
(* whose first end carries the cigar, the sequence and the qualities of    *)
(* its length.                                                             *)
(***************************************************************************)
\* The longest operation of the generated cigars, and the kmer size of the
\* scenarios.
MaxOpLen == 2

ScenarioKmer == 5

\* The bases of a cigar's operations that are bases of the read (M, I, S, =, X).
RECURSIVE QueryLen(_)
QueryLen(cigar) ==
    IF cigar = <<>> THEN 0
    ELSE (IF Head(cigar)[1] \in {0, 1, 4, 7, 8} THEN Head(cigar)[2] ELSE 0)
         + QueryLen(Tail(cigar))

GeomSeq(n) == [i \in 1..n |-> <<"A", "C", "G", "T">>[((((i * i) \div 2) + i) % 4) + 1]]

GeomQual(n) == [i \in 1..n |-> 73]

\* Cigars as an aligner writes them: hard clips outermost, soft clips next,
\* the aligned operations between matches.
GeomMiddles ==
    {<<<<0, a>>>> : a \in 1..MaxOpLen}
    \cup {<<<<0, 1>>, <<x, b>>, <<0, 1>>>> : b \in 1..MaxOpLen, x \in {1, 2, 3, 6}}

GeomLeads == {<<>>, <<<<4, 1>>>>, <<<<4, 2>>>>, <<<<5, 1>>>>}

GeomTrails == {<<>>, <<<<4, 1>>>>, <<<<4, 3>>>>, <<<<5, 1>>>>}

\* The cigars of the two scenarios of the specification's section 8.
CigScenario5 == <<<<4, 5>>, <<0, 20>>, <<4, 0>>>>

CigScenario6 == <<<<0, 20>>, <<4, 10>>>>

GeomCigars ==
    {l \o m \o t : l \in GeomLeads, m \in GeomMiddles, t \in GeomTrails}
    \cup {CigScenario5, CigScenario6}

GeomLayouts ==
    {[BaseLayout EXCEPT !.proper = TRUE, !.rev1 = r, !.rev2 = ~r,
                        !.pos1 = IF r THEN 3 ELSE 1, !.pos2 = IF r THEN 1 ELSE 3,
                        !.ins = IF i = 0 THEN 2 ELSE i * QueryLen(c) + 1,
                        !.cig1 = c, !.seq1 = GeomSeq(QueryLen(c)),
                        !.qual1 = GeomQual(QueryLen(c))] :
        r \in BOOLEAN, i \in 0..2, c \in GeomCigars}
    \cup {[BaseLayout EXCEPT !.cig1 = <<>>]}

InitGeom ==
    /\ bamfile \in {PairReads("q1", c) : c \in GeomLayouts}
    /\ reads = bamfile
    /\ kmer_size \in {1, MaxKmer, ScenarioKmer}
    /\ TrackerInit
    /\ cpo = CpoIdle

NextGeom ==
    \/ \E rid \in DOMAIN reads : Ingest(rid)
    \/ CheckClippings

SpecGeom == InitGeom /\ [][NextGeom]_vars

\* The entries of the last second pass, and what the pass saw of each read.
TraceIdx == 1..Len(trace)

TraceRead(i) == reads[trace[i].rid]

IsScenario5(i) == trace[i].ran /\ TraceRead(i).cigar = CigScenario5

\* C5, as the specification states it: a read of length 25 with the cigar
\* [(4,5),(0,20),(4,0)] and qualities all above the floor has clip span
\* [5,25] and good-quality window [0,25], the span covers the window, and
\* extract_clip returns early without recording a candidate.
C5_ScenarioReturnsEarly ==
    \A i \in TraceIdx :
        IsScenario5(i) =>
            /\ trace[i].clip_coords = <<5, 25>>
            /\ trace[i].good_qual_coords = <<0, 25, 25>>
            /\ trace[i].early
            /\ get_seq_readname(TraceRead(i)) \notin DOMAIN sv

\* C5, as the code has it: the span is [5,25] and the window [0,25], but the
\* span does not start at or before the window's start, so extract_clip goes
\* on: the start clip is the only clip, and unless the overlap resolver
\* suppresses it the read is recorded with the clipped fragment
\* sequence[0:5] and the buffered fragment sequence[0:5+kmer_size].
C5_ScenarioNotEarly ==
    \A i \in TraceIdx :
        IsScenario5(i) =>
            LET read == TraceRead(i)
                name == get_seq_readname(read)
            IN  /\ trace[i].clip_coords = <<5, 25>>
                /\ trace[i].good_qual_coords = <<0, 25, 25>>
                /\ ~trace[i].early
                /\ ~trace[i].add_clip[2]
                /\ trace[i].add_clip[1] =>
                     /\ name \in DOMAIN sv
                     /\ sv[name][2][1].clipped = <<SubSeq(read.seq, 1, 5)>>
                     /\ sv[name][2][1].buffered = <<SubSeq(read.seq, 1, 5 + kmer_size)>>
                     /\ sv[name][3] = <<0, 5>>
                /\ ~trace[i].add_clip[1] =>
                     /\ trace[i].asked = "back"
                     /\ name \notin DOMAIN sv

\* The scenario read has been through the second pass and is a candidate.
C5_Witness ==
    \E i \in TraceIdx :
        /\ IsScenario5(i)
        /\ trace[i].add_clip[1]
        /\ get_seq_readname(TraceRead(i)) \in DOMAIN sv

\* The scenario read has been through the second pass and the resolver has
\* suppressed its start clip.
C5_WitnessSuppressed ==
    \E i \in TraceIdx :
        IsScenario5(i) /\ ~trace[i].add_clip[1] /\ trace[i].asked = "back"

IsPrefix(p, s) == Len(p) <= Len(s) /\ SubSeq(s, 1, Len(p)) = p

IsSuffix(p, s) == Len(p) <= Len(s) /\ SubSeq(s, Len(s) - Len(p) + 1, Len(s)) = p

\* The bases of s at the 0-based positions lo..hi-1 that the read has.
Interval(s, lo, hi) == SubSeq(s, Max2(lo, 0) + 1, Min2(hi, Len(s)))

\* C6: for every end that extract_clip marks for addition, the clipped
\* fragment is the raw clipped subsequence (the bases before clip_start for
\* the start, the bases from clip_end on for the end), and the buffered
\* fragment is a prefix (start) or a suffix (end) of the read that contains
\* the clipped fragment as its own prefix (start) or suffix (end).
C6_BufferedContainsClipped ==
    \A i \in TraceIdx :
        (trace[i].ran /\ (trace[i].add_clip[1] \/ trace[i].add_clip[2])) =>
            LET read == TraceRead(i)
                s == read.seq
                a == trace[i].clip_coords[1]
                b == trace[i].clip_coords[2]
                name == get_seq_readname(read)
                frags == sv[name][2][1]
                e == IF trace[i].add_clip[1] THEN 2 ELSE 1
            IN  /\ name \in DOMAIN sv
                /\ trace[i].add_clip[1] =>
                     /\ frags.clipped[1] = Interval(s, 0, a)
                     /\ IsPrefix(frags.clipped[1], frags.buffered[1])
                     /\ IsPrefix(frags.buffered[1], s)
                /\ trace[i].add_clip[2] =>
                     /\ frags.clipped[e] = Interval(s, b, Len(s))
                     /\ IsSuffix(frags.clipped[e], frags.buffered[e])
                     /\ IsSuffix(frags.buffered[e], s)

\* C6's scenario on its own: the read of length 30 with the cigar
\* [(0,20),(4,10)], kmer_size 5, has clipped fragment sequence[20:30] and
\* buffered fragment sequence[15:30] whenever its end clip is marked.
C6_ScenarioHolds ==
    \A i \in TraceIdx :
        (trace[i].ran /\ TraceRead(i).cigar = CigScenario6 /\ trace[i].add_clip[2]
           /\ kmer_size = ScenarioKmer) =>
            LET read == TraceRead(i)
                frags == sv[get_seq_readname(read)][2][1]
            IN  /\ frags.clipped = <<SubSeq(read.seq, 21, 30)>>
                /\ frags.buffered = <<SubSeq(read.seq, 16, 30)>>

NoSoftClip(cigar) == \A j \in 1..Len(cigar) : cigar[j][1] # 4

\* C7: for a read without any soft-clip operation (the empty cigar
\* included), get_clip_coords returns [0, read length]: the clip span's
\* start is 0 and there is no start clip and no end clip.
C7_NoSoftClipWholeRead ==
    \A i \in TraceIdx :
        NoSoftClip(TraceRead(i).cigar) =>
            (IF trace[i].ran THEN trace[i].clip_coords
                             ELSE get_clip_coords(TraceRead(i)))
                = <<0, Len(TraceRead(i).qual)>>

\* C7 on the cigars of matches, insertions and deletions only.
C7_QueryOpsWholeRead ==
    \A i \in TraceIdx :
        (trace[i].ran /\ \A j \in 1..Len(TraceRead(i).cigar) :
                            TraceRead(i).cigar[j][1] \in {0, 1, 2}) =>
            trace[i].clip_coords = <<0, Len(TraceRead(i).qual)>>

(***************************************************************************)
(* check_pair_overlap step by step: the frame cpo holds the arguments and  *)
(* the locals, pc the place in the function.                               *)
(***************************************************************************)
\* Lines 53-56.
CpoEntry ==
    /\ cpo.pc = "call"
    /\ cpo' = [cpo EXCEPT !.pc = "test", !.nmisses = 0, !.add_clip = TRUE,
                          !.clip_seq = PySlice(cpo.read.seq, cpo.coords[1], cpo.coords[2]),
                          !.clip_len = cpo.coords[2] - cpo.coords[1]]
    /\ UNCHANGED <<reads, fetched, pair_indices, valid, disc, unmapped, unmapped_keep,
                   inv, td, other, sv, sv_none, bam, clipped_fa, reads_fq, sv_bam,
                   calls, trace, kmer_size, bamfile>>

\* Lines 58-60, then line 72.
CpoInsertPolicy ==
    /\ cpo.pc = "test"
    /\ InsertPolicy(cpo.read)
    /\ cpo' = [cpo EXCEPT !.pc = "return",
                          !.add_clip = InsertVerdict(cpo.read, cpo.clip_len)]
    /\ UNCHANGED <<reads, fetched, pair_indices, valid, disc, unmapped, unmapped_keep,
                   inv, td, other, sv, sv_none, bam, clipped_fa, reads_fq, sv_bam,
                   calls, trace, kmer_size, bamfile>>

\* Line 61.
CpoElse ==
    /\ cpo.pc = "test"
    /\ ~InsertPolicy(cpo.read)
    /\ cpo' = [cpo EXCEPT !.pc = "loop"]
    /\ UNCHANGED <<reads, fetched, pair_indices, valid, disc, unmapped, unmapped_keep,
                   inv, td, other, sv, sv_none, bam, clipped_fa, reads_fq, sv_bam,
                   calls, trace, kmer_size, bamfile>>

\* Lines 62-67: one iteration of the loop.
CpoShrink ==
    /\ cpo.pc = "loop"
    /\ ShrinkCond(cpo.trim_dir, cpo.mate_seq, cpo.clip_seq, cpo.nmisses)
    /\ cpo' = [cpo EXCEPT !.clip_seq = ShrinkOnce(cpo.trim_dir, cpo.clip_seq),
                          !.nmisses = @ + 1]
    /\ UNCHANGED <<reads, fetched, pair_indices, valid, disc, unmapped, unmapped_keep,
                   inv, td, other, sv, sv_none, bam, clipped_fa, reads_fq, sv_bam,
                   calls, trace, kmer_size, bamfile>>

\* Line 62 false, then lines 68-72.
CpoLoopExit ==
    /\ cpo.pc = "loop"
    /\ ~ShrinkCond(cpo.trim_dir, cpo.mate_seq, cpo.clip_seq, cpo.nmisses)
    /\ cpo' = [cpo EXCEPT !.pc = "return",
                          !.add_clip = ShrinkVerdict(cpo.clip_seq, cpo.nmisses)]
    /\ UNCHANGED <<reads, fetched, pair_indices, valid, disc, unmapped, unmapped_keep,
                   inv, td, other, sv, sv_none, bam, clipped_fa, reads_fq, sv_bam,
                   calls, trace, kmer_size, bamfile>>

\* The length of the reads the resolver is called on.
OvlLen == 7

RECURSIVE SeqsOver(_, _)
SeqsOver(S, n) ==
    IF n = 0 THEN {<<>>}
    ELSE {Append(s, x) : s \in SeqsOver(S, n - 1), x \in S}

\* The mate sequences a read s of length n is resolved against.
OvlMates(s, n) == {s, Reverse(s), [i \in 1..n |-> "A"], SubSeq(s, 2, n) \o <<"C">>}

\* A start clip [0, c] goes with "back", an end clip [c, len] with "front".
OvlCoords(n) == {<<"back", <<0, c>>>> : c \in 1..(n - 1)}
                \cup {<<"front", <<c, n>>>> : c \in 1..(n - 1)}

CpoCall(mate_seq, seq, tlen, dc) ==
    [pc |-> "call", mate_seq |-> mate_seq, read |-> [seq |-> seq, tlen |-> tlen],
     coords |-> dc[2], trim_dir |-> dc[1],
     clip_seq |-> <<>>, clip_len |-> 0, nmisses |-> 0, add_clip |-> TRUE]

\* The calls on reads of length n: every insert size below the read length
\* on the reads of one base, and every read with its mates at an insert size
\* that is not.
CpoCalls(n) ==
    {CpoCall(Reverse(s), s, t, dc) :
        s \in SeqsOver({"A"}, n), t \in (-n)..n, dc \in OvlCoords(n)}
    \cup UNION {{CpoCall(m, s, n + 2, dc) : m \in OvlMates(s, n), dc \in OvlCoords(n)} :
                    s \in SeqsOver({"A", "C"}, n)}

InitOverlap ==
    /\ cpo \in CpoCalls(OvlLen)
    /\ bamfile = <<>>
    /\ reads = <<>>
    /\ kmer_size = 1
    /\ TrackerInit

NextOverlap == CpoEntry \/ CpoInsertPolicy \/ CpoElse \/ CpoShrink \/ CpoLoopExit

SpecOverlap == InitOverlap /\ [][NextOverlap]_vars

\* The frame agrees with the function the tracker calls.
CpoAgrees ==
    cpo.pc = "return" =>
        cpo.add_clip = check_pair_overlap(cpo.mate_seq, cpo.read, cpo.coords, cpo.trim_dir)

(***************************************************************************)
(* C9.  In the second policy each shrink iteration removes one base from   *)
(* the end the direction names (the first base for "front", the last base  *)
(* for "back"); the loop runs at most 5 iterations; the clip is kept when  *)
(* the fragment is exhausted or the cap is reached and suppressed when the *)
(* loop exits earlier.                                                     *)
(***************************************************************************)
DropFirst(s) == SubSeq(s, 2, Len(s))

DropLast(s) == SubSeq(s, 1, Len(s) - 1)

C9_ShrinkStep ==
    /\ (cpo.pc = "loop" /\ cpo'.pc = "loop" /\ cpo'.nmisses = cpo.nmisses + 1)
         => cpo'.clip_seq = IF cpo.trim_dir = "back"
                            THEN DropLast(cpo.clip_seq)
                            ELSE DropFirst(cpo.clip_seq)
    /\ cpo'.nmisses <= MaxMisses
    /\ (cpo.pc = "loop" /\ cpo'.pc = "return")
         => (cpo'.add_clip <=> (Len(cpo.clip_seq) = 0 \/ cpo.nmisses = MaxMisses))

C9_ShrinkRemovesNamedEnd == [][C9_ShrinkStep]_vars

====
